---- MODULE Spec2Model ----
(***************************************************************************)
(* Job index (Redis lists and hashes), matching API, reservation monitor   *)
(* and worker poll loop of the Buildkite custom scheduler.                 *)
(*                                                                         *)
(* Strings are sequences of byte values, so that sorting, joining,         *)
(* splitting and trimming are computed as the Go code computes them.       *)
(* Every Redis command is one atomic step; a command may fail (store       *)
(* unreachable), in which case it has no effect and returns an error.      *)
(***************************************************************************)
EXTENDS Integers, Sequences, FiniteSets, TLC

\* ---------------------------------------------------------------- bytes
Comma == 44
Space == 32
Plus == 43

\* ---------------------------------------------------------------- bounds
NumJobs == 2
NumClients == 2
MaxAdds == 2
MaxRequests == 2
MaxPage == 1
MaxFaults == 1
MaxTags == 2
MaxRules == 3
MaxTicks == 2
MaxCursor == 2
MaxListed == 2

\* The store's record lifetime (1 hour), in clock ticks of the model.
TTL == 2
\* A record that carries no expiry (Redis TTL -1).
NoExpiry == 0 - 1

\* ---------------------------------------------------------------- strings
EmptyString == << >>

\* strings.Compare on byte strings: a < b
RECURSIVE StrLess(_, _)
StrLess(a, b) ==
    IF b = << >> THEN FALSE
    ELSE IF a = << >> THEN TRUE
    ELSE IF Head(a) # Head(b) THEN Head(a) < Head(b)
    ELSE StrLess(Tail(a), Tail(b))

\* insert s into the sorted sequence of strings xs
RECURSIVE SortedInsert(_, _)
SortedInsert(s, xs) ==
    IF xs = << >> THEN << s >>
    ELSE IF StrLess(Head(xs), s) \/ Head(xs) = s
         THEN << Head(xs) >> \o SortedInsert(s, Tail(xs))
         ELSE << s >> \o xs

\* sort.Strings
RECURSIVE SortStrings(_)
SortStrings(xs) ==
    IF xs = << >> THEN << >>
    ELSE SortedInsert(Head(xs), SortStrings(Tail(xs)))

\* strings.Join(xs, ",")
RECURSIVE JoinComma(_)
JoinComma(xs) ==
    IF xs = << >> THEN EmptyString
    ELSE IF Len(xs) = 1 THEN Head(xs)
    ELSE Head(xs) \o << Comma >> \o JoinComma(Tail(xs))

\* strings.Split(s, ","): always at least one element
RECURSIVE SplitComma(_)
SplitComma(s) ==
    IF s = << >> THEN << EmptyString >>
    ELSE IF Head(s) = Comma THEN << EmptyString >> \o SplitComma(Tail(s))
    ELSE LET rest == SplitComma(Tail(s))
         IN  << << Head(s) >> \o Head(rest) >> \o Tail(rest)

RECURSIVE TrimLeft(_)
TrimLeft(s) ==
    IF s # << >> /\ Head(s) = Space THEN TrimLeft(Tail(s)) ELSE s

RECURSIVE TrimRight(_)
TrimRight(s) ==
    IF s # << >> /\ s[Len(s)] = Space THEN TrimRight(SubSeq(s, 1, Len(s) - 1)) ELSE s

\* strings.TrimSpace
TrimSpace(s) == TrimRight(TrimLeft(s))

\* a NormalizeQueryRules that joins the rules in the order given
NormalizeUnsorted(rules) ==
    IF Len(rules) = 0 THEN EmptyString
    ELSE JoinComma(rules)
\* types.NormalizeQueryRules
NormalizeQueryRules(rules) ==
    IF Len(rules) = 0 THEN EmptyString
    ELSE JoinComma(SortStrings(rules))

\* types.ParseQueryRules
ParseQueryRules(normalized) ==
    IF normalized = EmptyString THEN << >>
    ELSE SplitComma(normalized)

\* ---------------------------------------------------------------- data
\* the rule strings "a" and "b"
RuleA == << 97 >>
RuleB == << 98 >>

\* the AgentQueryRules lists the authority attaches to scheduled jobs
RuleLists == { << RuleA >>, << RuleB, RuleA >> }

JobIds == 1 .. NumJobs
Clients == 1 .. NumClients

\* stacksapi.ScheduledJob, as far as the monitor reads it
ScheduledJobs == [ID : JobIds, AgentQueryRules : RuleLists]

\* raw values of the "query" parameter of GET /jobs
QueryParams ==
    { EmptyString,
      << Space >>,
      RuleA,
      RuleB \o << Comma, Space >> \o RuleA }

\* api.go handleGetJob: split on "," and trim every piece
QueryRulesOf(queryParam) ==
    LET parts == SplitComma(queryParam)
    IN  [i \in 1 .. Len(parts) |-> TrimSpace(parts[i])]

\* r.URL.Query().Get("query") of a request whose URL carries the value as
\* it is: url.QueryUnescape reads "+" as a space
UnescapeQuery(raw) == [n \in 1 .. Len(raw) |-> IF raw[n] = Plus THEN Space ELSE raw[n]]

\* the rule string "a+b"
RulePlus == RuleA \o << Plus >> \o RuleB
\* the capability rules a polling worker can be configured with, which are
\* also rule lists of scheduled jobs
PollerRules == { << RuleB, RuleA >>, << RulePlus >> }

\* "queue=<name>"
QueueRule(name) == << 113, 117, 101, 117, 101, 61 >> \o name

\* Runner.getJob: the value it puts after "query=" in the URL
getJobQuery(queue, rules) ==
    NormalizeQueryRules(IF queue # EmptyString
                        THEN << QueueRule(queue) >> \o rules
                        ELSE rules)

\* the worker of the monitor's system: its rules and its queue name
WorkerRules == << RuleB, RuleA >>
WorkerQueue == EmptyString

\* the query parameter handleGetJob reads from the request of a worker
\* configured with the rules r
WorkerQuery == [r \in PollerRules \cup { WorkerRules } |->
                   UnescapeQuery(getJobQuery(WorkerQueue, r))]

\* the values of the query parameter that reach handleGetJob
ClientQueries == QueryParams \cup { WorkerQuery[r] : r \in DOMAIN WorkerQuery }

\* ClaimJob: the key of the queue a claim with the query parameter q pops
\* from, for every q that reaches handleGetJob
KeyOfQuery == [q \in ClientQueries |-> NormalizeQueryRules(QueryRulesOf(q))]
ClaimKey(queryParam) == KeyOfQuery[queryParam]

\* the capability keys that can name a list "jobs:<key>"
StoreKeys ==
    { NormalizeQueryRules(r) : r \in RuleLists \cup PollerRules }
        \cup { ClaimKey(q) : q \in ClientQueries \ {EmptyString} }

\* json.Marshal / json.Unmarshal of types.Job
Marshal(job) == << "json", job.UUID, job.AgentQueryRules >>
Unmarshal(data) == [UUID |-> data[2], AgentQueryRules |-> data[3]]

NoField == << "nil" >>
AbsentMeta == [status |-> "absent", query_rules |-> NoField, ttl |-> 0]

StatusRank(st) ==
    CASE st = "reserved" -> 1
      [] st = "claimed" -> 2
      [] st = "complete" -> 3
      [] OTHER -> 0

NoJob == 0

VARIABLES
    lists,      \* jobs:<key> -> the Redis list (empty = the key does not exist)
    listTTL,    \* jobs:<key> -> remaining lifetime, NoExpiry, or 0 when absent
    meta,       \* job:<id>   -> the Redis hash
    mon,        \* the monitor inside reserveJobs / AddJob
    adds,       \* number of RPUSH commands issued so far
    api,        \* per client: the request being handled
    resp,       \* the last response the API sent
    reqs,       \* number of API requests issued so far
    faults,     \* number of store commands that failed so far
    pushed,     \* per key: ids appended since the list last expired
    handed,     \* per key: ids LPOP handed out since the list last expired
    epoch,      \* per key: the claims made since the last insert
    age,        \* per key: ticks since the last successful insert
    worker,     \* the Runner: where it is in Start / processNextJob
    agent,      \* the buildkite-agent process of the current job
    cancelled,  \* the worker's context is done
    tally,      \* per key: the AddJob and ClaimJob calls that returned success
    poll,       \* the monitor's loops: Start, pollQueues, pollQueue
    calc        \* a call of a pure function: its arguments and results

storeVars == << lists, listTTL, meta >>
workerVars == << worker, agent, cancelled >>
sideVars == << poll, calc >>
restVars == << tally, poll, calc >>
vars == << lists, listTTL, meta, mon, adds, api, resp, reqs, faults,
           pushed, handed, epoch, age, worker, agent, cancelled, tally, poll, calc >>

NoAge == 0 - 1
\* no pure function is being called
NoCalc == [fn |-> "none"]
\* the monitor before Start
\* pc: where Start, pollQueues and pollQueue stand; queues: the configured
\* queues this tick has not finished, the first being polled; cursor: pages
\* of it listed before; page, hasNext: the last listing response; done: the
\* context is cancelled; ticks, late: ticks started, and started after the
\* cancellation; seen: per queue, whether this tick sent a request for it
\* ("no"), and whether one of them failed ("error") or reported the queue
\* paused ("paused"); called, appended: the ids reserveJobs called AddJob
\* with, and those whose RPUSH succeeded
IdlePoll == [pc |-> "wait", queues |-> << >>, cursor |-> 0, page |-> << >>,
             hasNext |-> FALSE, done |-> FALSE, ticks |-> 0, late |-> 0,
             seen |-> << >>, called |-> << >>, appended |-> << >>]
IdleMon == [pc |-> "idle", todo |-> << >>, granted |-> {}]
IdleApi == [pc |-> "idle", job |-> NoJob, query |-> EmptyString, fresh |-> FALSE,
            keys |-> {}, stats |-> {}, failed |-> FALSE]
\* exit: how the agent of the last cycle ended; completeCalled: whether
\* that cycle called completeJob; late: ticks started after the cancellation
IdleWorker == [pc |-> "idle", job |-> NoJob, exit |-> "none", completeCalled |-> FALSE,
               late |-> 0]
\* a response without a body to speak of
NoBody == [queues |-> {}, total |-> 0]
NoResp == [op |-> "none", query |-> EmptyString, status |-> 0, store |-> FALSE,
           failed |-> FALSE, body |-> NoBody]
\* the claims on a key since an insert left its queue with exactly one job:
\* how many returned the job, whether one returned "no job", whether one
\* returned an error, whether the queue expired
NoEpoch == [single |-> FALSE, job |-> 0, none |-> FALSE, err |-> FALSE,
            expired |-> FALSE]
NewEpoch(n) == [NoEpoch EXCEPT !.single = (n = 1)]

\* the state after construction, apart from the pure function being called
IdleInit ==
    /\ lists = [k \in StoreKeys |-> << >>]
    /\ listTTL = [k \in StoreKeys |-> 0]
    /\ meta = [j \in JobIds |-> AbsentMeta]
    /\ mon = IdleMon
    /\ adds = 0
    /\ api = [c \in Clients |-> IdleApi]
    /\ resp = NoResp
    /\ reqs = 0
    /\ faults = 0
    /\ pushed = [k \in StoreKeys |-> << >>]
    /\ handed = [k \in StoreKeys |-> << >>]
    /\ epoch = [k \in StoreKeys |-> NoEpoch]
    /\ age = [k \in StoreKeys |-> NoAge]
    /\ worker = IdleWorker
    /\ agent = "none"
    /\ cancelled = FALSE
    /\ tally = [k \in StoreKeys |-> [inserts |-> 0, claims |-> 0]]
    /\ poll = IdlePoll

Init == IdleInit /\ calc = NoCalc

\* ---------------------------------------------------------------- Redis
\* LPUSH in the place of RPUSH: the new entry goes to the head
RPushAtHead(list, data) == << data >> \o list
\* RPUSH key data: append at the tail; a new list carries no expiry
RPush(list, data) == Append(list, data)
RPushTTL(list, ttl) == IF list = << >> THEN NoExpiry ELSE ttl

\* LPOP key: the head, and the list without it
LPopValue(list) == Head(list)
\* a read of the head that leaves it in the list (LINDEX 0 without the removal)
LPopRestKept(list) == list
LPopRest(list) == Tail(list)

\* an EXPIRE that is never sent
ExpireDropped(exists, old, ttl) == old
\* EXPIRE key ttl: only an existing key gets the expiry
Expire(exists, old, ttl) == IF exists THEN ttl ELSE old

\* HSET job:<id> status <st>: creates the hash when it does not exist
HSetStatus(m, st) ==
    IF m.status = "absent"
    THEN [status |-> st, query_rules |-> NoField, ttl |-> NoExpiry]
    ELSE [m EXCEPT !.status = st]

\* HSET job:<id> queue_key .. query_rules .. reserved_at .. status reserved
HSetAll(m, rules) ==
    [status |-> "reserved", query_rules |-> rules,
     ttl |-> IF m.status = "absent" THEN NoExpiry ELSE m.ttl]

\* ---------------------------------------------------------------- faults
\* a store command either succeeds or fails; at most MaxFaults fail in a run
Outcomes == IF faults < MaxFaults THEN BOOLEAN ELSE {TRUE}
Fault(ok) == faults' = IF ok THEN faults ELSE faults + 1

\* ---------------------------------------------------------------- monitor
\* one page of the authority's listing: at most MaxPage jobs, each id once
PagesOf(jobs, size) ==
    { p \in UNION { [1 .. n -> jobs] : n \in 1 .. size } :
        \A a, b \in 1 .. Len(p) : a # b => p[a].ID # p[b].ID }
PagesUpTo(size) == PagesOf(ScheduledJobs, size)
Pages == PagesUpTo(MaxPage)

PageIds(p) == { p[n].ID : n \in 1 .. Len(p) }

\* a reserveJobs that takes every listed job for a reserved one
ReservedAlways(granted, id) == TRUE
\* reservedMap[job.ID]
Reserved(granted, id) == id \in granted

MonJob == Head(mon.todo)
MonKey == NormalizeQueryRules(MonJob.AgentQueryRules)

\* a reserveJobs that returns after its first AddJob, leaving the rest of
\* the page
NextJobAbort == [mon EXCEPT !.pc = "loop", !.todo = << >>]
\* the loop of reserveJobs moves to the next job of the page
NextJob == [mon EXCEPT !.pc = "loop", !.todo = Tail(@)]

\* a stats call in flight no longer runs on a store at rest
StaleStats ==
    [c \in Clients |->
        IF api[c].pc = "llen" THEN [api[c] EXCEPT !.fresh = FALSE] ELSE api[c]]

\* api calls in flight on key k no longer belong to the epoch of k
Stale(k) ==
    [c \in Clients |->
        IF api[c].pc = "hset" /\ NormalizeQueryRules(QueryRulesOf(api[c].query)) = k
        THEN [api[c] EXCEPT !.fresh = FALSE]
        ELSE StaleStats[c]]

\* an AddJob or a ClaimJob on key k returns, with success or not
Tally(op, k, ok) ==
    tally' = IF ~ok THEN tally
             ELSE IF op = "insert" THEN [tally EXCEPT ![k].inserts = @ + 1]
             ELSE [tally EXCEPT ![k].claims = @ + 1]

\* Monitor.reserveJobs up to the reservation: BatchReserveJobs returns the
\* granted subset, or fails
ReserveJobs(page, granted, ok) ==
    /\ mon.pc = "idle"
    /\ adds + Cardinality(granted) <= MaxAdds
    /\ mon' = IF ok THEN [pc |-> "loop", todo |-> page, granted |-> granted]
                    ELSE mon
    /\ UNCHANGED << lists, listTTL, meta, adds, api, resp, reqs, faults, pushed, handed,
                    epoch, age >>
    /\ UNCHANGED workerVars

\* reserveJobs: a listed job that was not granted is skipped
ReserveSkip ==
    /\ mon.pc = "loop"
    /\ mon.todo # << >>
    /\ ~Reserved(mon.granted, MonJob.ID)
    /\ mon' = NextJob
    /\ UNCHANGED << lists, listTTL, meta, adds, api, resp, reqs, faults, pushed, handed,
                    epoch, age >>
    /\ UNCHANGED workerVars

\* reserveJobs: end of the page
ReserveDone ==
    /\ mon.pc = "loop"
    /\ mon.todo = << >>
    /\ mon' = IdleMon
    /\ UNCHANGED << lists, listTTL, meta, adds, api, resp, reqs, faults, pushed, handed,
                    epoch, age >>
    /\ UNCHANGED workerVars

\* AddJob: RPUSH jobs:<key> <json>
AddJob_RPush(ok) ==
    /\ mon.pc = "loop"
    /\ mon.todo # << >>
    /\ Reserved(mon.granted, MonJob.ID)
    /\ adds' = adds + 1
    /\ Fault(ok)
    /\ IF ok
       THEN /\ lists' = [lists EXCEPT ![MonKey] =
                            RPush(@, Marshal([UUID |-> MonJob.ID,
                                              AgentQueryRules |-> MonJob.AgentQueryRules]))]
            /\ listTTL' = [listTTL EXCEPT ![MonKey] = RPushTTL(lists[MonKey], @)]
            /\ mon' = [mon EXCEPT !.pc = "expire"]
            /\ pushed' = [pushed EXCEPT ![MonKey] = Append(@, MonJob.ID)]
            /\ epoch' = [epoch EXCEPT ![MonKey] = NewEpoch(Len(lists[MonKey]) + 1)]
            /\ age' = [age EXCEPT ![MonKey] = NoAge]
            /\ api' = Stale(MonKey)
       ELSE /\ mon' = NextJob
            /\ UNCHANGED << lists, listTTL, pushed, epoch, age, api >>
    /\ UNCHANGED << meta, resp, reqs, handed >>
    /\ UNCHANGED workerVars

\* AddJob: EXPIRE jobs:<key> 1h
AddJob_Expire(ok) ==
    /\ mon.pc = "expire"
    /\ Fault(ok)
    /\ IF ok
       THEN /\ listTTL' = [listTTL EXCEPT ![MonKey] = Expire(lists[MonKey] # << >>, @, TTL)]
            /\ mon' = [mon EXCEPT !.pc = "hset"]
       ELSE /\ mon' = NextJob
            /\ UNCHANGED listTTL
    /\ UNCHANGED << lists, meta, adds, api, resp, reqs, pushed, handed, epoch, age >>
    /\ UNCHANGED workerVars

\* AddJob: HSET job:<id> queue_key .. query_rules .. reserved_at .. status reserved
AddJob_HSet(ok) ==
    /\ mon.pc = "hset"
    /\ Fault(ok)
    /\ IF ok
       THEN /\ meta' = [meta EXCEPT ![MonJob.ID] = HSetAll(@, MonKey)]
            /\ mon' = [mon EXCEPT !.pc = "expireMeta"]
       ELSE /\ mon' = NextJob
            /\ UNCHANGED meta
    /\ UNCHANGED << lists, listTTL, adds, api, resp, reqs, pushed, handed, epoch, age >>
    /\ UNCHANGED workerVars

\* AddJob: EXPIRE job:<id> 1h, and the return to reserveJobs
AddJob_ExpireMeta(ok) ==
    /\ mon.pc = "expireMeta"
    /\ Fault(ok)
    /\ mon' = NextJob
    /\ IF ok
       THEN /\ meta' = [meta EXCEPT ![MonJob.ID].ttl =
                            Expire(meta[MonJob.ID].status # "absent", @, TTL)]
            /\ age' = [age EXCEPT ![MonKey] = 0]
       ELSE UNCHANGED << meta, age >>
    /\ UNCHANGED << lists, listTTL, adds, api, resp, reqs, pushed, handed, epoch >>
    /\ UNCHANGED workerVars

\* ---------------------------------------------------------------- polling
\* ServerCmd.Queues: the configured queue keys
Queues == << "q1", "q2" >>

\* the pages of the authority's listing in the monitor's loops
PollPages == PagesUpTo(MaxListed)
\* a response of ListScheduledJobs
ListResponses == [Paused : BOOLEAN, Jobs : PollPages \cup { << >> }, HasNextPage : BOOLEAN]

\* a pollQueue that does not look at the paused flag
PausedIgnored(r) == FALSE
\* resp.ClusterQueue.Paused
Paused(r) == r.Paused

\* the queue being polled: Queues[Polled]
Polled == Len(Queues) - Len(poll.queues) + 1

\* a request of this tick for the queue being polled, and how it ended
Logged(kind, result) ==
    [poll EXCEPT !.seen[Polled] = IF result = "ok" /\ @ # "no" THEN @ ELSE result]

\* pollQueue returns; pollQueues goes to the next queue, and Start back to
\* its select after the last
NextQueue(p) ==
    [p EXCEPT !.queues = Tail(@), !.cursor = 0, !.page = << >>, !.hasNext = FALSE,
              !.called = << >>, !.appended = << >>,
              !.pc = IF Tail(p.queues) = << >> THEN "wait" ELSE "list"]

\* pollQueue after a page: the next page if there is one, else the end of
\* the loop
AfterPage(p) ==
    IF p.hasNext
    THEN [p EXCEPT !.pc = "list", !.cursor = @ + 1, !.page = << >>,
                   !.hasNext = FALSE, !.called = << >>, !.appended = << >>]
    ELSE NextQueue(p)

\* Monitor.Start: the select takes a tick and pollQueues starts on the first
\* queue; the select may take the tick when the context is done as well
Monitor_Tick ==
    /\ poll.pc = "wait"
    /\ poll.ticks < MaxTicks
    /\ poll' = [poll EXCEPT !.pc = "list", !.queues = Queues, !.cursor = 0,
                            !.ticks = @ + 1,
                            !.seen = [n \in 1 .. Len(Queues) |-> "no"],
                            !.late = IF poll.done THEN @ + 1 ELSE @]
    /\ UNCHANGED << lists, listTTL, meta, mon, adds, api, resp, reqs, faults, pushed,
                    handed, epoch, age, worker, agent, cancelled, tally, calc >>

\* ServerCmd.Run: a signal arrives and cancel() is called
Monitor_Cancel ==
    /\ ~poll.done
    /\ poll' = [poll EXCEPT !.done = TRUE]
    /\ UNCHANGED << lists, listTTL, meta, mon, adds, api, resp, reqs, faults, pushed,
                    handed, epoch, age, worker, agent, cancelled, tally, calc >>

\* Monitor.Start: the select takes ctx.Done()
Monitor_Stop ==
    /\ poll.pc = "wait"
    /\ poll.done
    /\ poll' = [poll EXCEPT !.pc = "stopped"]
    /\ UNCHANGED << lists, listTTL, meta, mon, adds, api, resp, reqs, faults, pushed,
                    handed, epoch, age, worker, agent, cancelled, tally, calc >>

\* pollQueue: ListScheduledJobs for the queue being polled, and what
\* pollQueue does with the response; with a done context the call fails
PollQueue_List(ok, r) ==
    /\ poll.pc = "list"
    /\ poll.done => ~ok
    /\ (poll.cursor + 1 >= MaxCursor) => ~r.HasNextPage
    /\ poll' =
           IF ~ok THEN NextQueue(Logged("list", "error"))
           ELSE IF Paused(r) THEN NextQueue(Logged("list", "paused"))
           ELSE IF Len(r.Jobs) > 0
                THEN [Logged("list", "ok") EXCEPT !.pc = "reserve", !.page = r.Jobs,
                                                  !.hasNext = r.HasNextPage]
                ELSE AfterPage([Logged("list", "ok") EXCEPT !.hasNext = r.HasNextPage])
    /\ UNCHANGED << lists, listTTL, meta, mon, adds, api, resp, reqs, faults, pushed,
                    handed, epoch, age, worker, agent, cancelled, tally, calc >>

\* pollQueue calls reserveJobs with the page: BatchReserveJobs; an error is
\* logged and pollQueue goes on with the next page
PollQueue_reserveJobs(granted, ok) ==
    /\ poll.pc = "reserve"
    /\ poll.done => ~ok
    /\ ReserveJobs(poll.page, granted, ok)
    /\ poll' = IF ok THEN [Logged("reserve", "ok") EXCEPT !.pc = "insert"]
               ELSE AfterPage(Logged("reserve", "error"))
    /\ UNCHANGED << tally, calc >>

\* reserveJobs: the loop over the page
Poll_ReserveSkip ==
    /\ poll.pc = "insert"
    /\ ReserveSkip
    /\ UNCHANGED << poll, tally, calc >>

Poll_AddJob_RPush(ok) ==
    /\ poll.pc = "insert"
    /\ AddJob_RPush(ok)
    /\ poll' = [poll EXCEPT !.called = Append(@, MonJob.ID),
                            !.appended = IF ok THEN Append(@, MonJob.ID) ELSE @]
    /\ UNCHANGED << tally, calc >>

Poll_AddJob_Expire(ok) ==
    /\ poll.pc = "insert"
    /\ AddJob_Expire(ok)
    /\ UNCHANGED << poll, tally, calc >>

Poll_AddJob_HSet(ok) ==
    /\ poll.pc = "insert"
    /\ AddJob_HSet(ok)
    /\ UNCHANGED << poll, tally, calc >>

Poll_AddJob_ExpireMeta(ok) ==
    /\ poll.pc = "insert"
    /\ AddJob_ExpireMeta(ok)
    /\ Tally("insert", MonKey, ok)
    /\ UNCHANGED << poll, calc >>

\* reserveJobs returns nil; pollQueue counts the page and goes on
Poll_ReserveDone ==
    /\ poll.pc = "insert"
    /\ ReserveDone
    /\ poll' = AfterPage(poll)
    /\ UNCHANGED << tally, calc >>

\* ---------------------------------------------------------------- API
\* a handleGetJob that passes redis.Nil on as an error: 500 in the place of 204
ResponseNilAsError(op, q, status, store) ==
    [op |-> op, query |-> q, status |-> IF status = 204 THEN 500 ELSE status,
     store |-> store, failed |-> (status = 500), body |-> NoBody]
Response(op, q, status, store) ==
    [op |-> op, query |-> q, status |-> status, store |-> store,
     failed |-> (status = 500), body |-> NoBody]

\* a claim on key k returned: what, if the epoch of k is being followed
Returned(k, what) ==
    IF ~epoch[k].single THEN epoch
    ELSE CASE what = "job" -> [epoch EXCEPT ![k].job = @ + 1]
           [] what = "none" -> [epoch EXCEPT ![k].none = TRUE]
           [] OTHER -> [epoch EXCEPT ![k].err = TRUE]

\* handleGetJob with ClaimJob up to and including LPOP jobs:<key>, for a
\* request that has arrived
ServeGetJob(c, q, ok) ==
    /\ api[c].pc = "idle"
    /\ IF q = EmptyString
       THEN \* 400: query parameter is required
            /\ ok
            /\ resp' = Response("claim", q, 400, FALSE)
            /\ UNCHANGED << lists, listTTL, api, handed, epoch, faults >>
       ELSE LET k == ClaimKey(q) IN
            /\ Fault(ok)
            /\ IF ~ok
               THEN \* 500: popping job from redis
                    /\ resp' = Response("claim", q, 500, TRUE)
                    /\ epoch' = Returned(k, "error")
                    /\ UNCHANGED << lists, listTTL, api, handed >>
               ELSE IF lists[k] = << >>
               THEN \* redis.Nil: 204
                    /\ resp' = Response("claim", q, 204, TRUE)
                    /\ epoch' = Returned(k, "none")
                    /\ UNCHANGED << lists, listTTL, api, handed >>
               ELSE LET job == Unmarshal(LPopValue(lists[k]))
                        rest == LPopRest(lists[k])
                    IN  /\ lists' = [lists EXCEPT ![k] = rest]
                        /\ listTTL' = [listTTL EXCEPT ![k] = IF rest = << >> THEN 0 ELSE @]
                        /\ api' = [StaleStats EXCEPT ![c] =
                                      [IdleApi EXCEPT !.pc = "hset", !.job = job.UUID,
                                                      !.query = q, !.fresh = TRUE]]
                        /\ handed' = [handed EXCEPT ![k] = Append(@, job.UUID)]
                        /\ UNCHANGED << epoch, resp >>
    /\ UNCHANGED << meta, mon, adds, pushed, age >>

\* a GET /jobs request of one of the API's clients
HandleGetJob(c, q, ok) ==
    /\ reqs < MaxRequests
    /\ reqs' = reqs + 1
    /\ ServeGetJob(c, q, ok)

\* ClaimJob: HSET job:<id> status claimed, and the response of handleGetJob
ClaimJob_HSet(c, ok) ==
    /\ api[c].pc = "hset"
    /\ api' = [api EXCEPT ![c] = IdleApi]
    /\ Fault(ok)
    /\ IF ok
       THEN /\ meta' = [meta EXCEPT ![api[c].job] = HSetStatus(@, "claimed")]
            /\ resp' = Response("claim", api[c].query, 200, TRUE)
            /\ epoch' = IF api[c].fresh THEN Returned(ClaimKey(api[c].query), "job")
                        ELSE epoch
       ELSE /\ resp' = Response("claim", api[c].query, 500, TRUE)
            /\ epoch' = IF api[c].fresh THEN Returned(ClaimKey(api[c].query), "error")
                        ELSE epoch
            /\ UNCHANGED meta
    /\ UNCHANGED << lists, listTTL, mon, adds, reqs, pushed, handed, age >>

\* handleCompleteJob with CompleteJob: HSET job:<id> status complete, for a
\* request that has arrived
ServeCompleteJob(c, j, ok) ==
    /\ api[c].pc = "idle"
    /\ Fault(ok)
    /\ IF ok
       THEN /\ meta' = [meta EXCEPT ![j] = HSetStatus(@, "complete")]
            /\ resp' = Response("complete", EmptyString, 200, TRUE)
       ELSE /\ resp' = Response("complete", EmptyString, 500, TRUE)
            /\ UNCHANGED meta
    /\ UNCHANGED << lists, listTTL, mon, adds, api, pushed, handed, epoch, age >>

\* a POST /jobs/<id>/complete request of one of the API's clients
HandleCompleteJob(c, j, ok) ==
    /\ reqs < MaxRequests
    /\ reqs' = reqs + 1
    /\ ServeCompleteJob(c, j, ok)

\* ---------------------------------------------------------------- time
Expiring(ttl) == ttl = 1
Countdown(ttl) == IF ttl > 0 THEN ttl - 1 ELSE ttl

\* one unit of the store's clock: expiries count down, expired records go
Tick ==
    /\ \/ \E k \in StoreKeys : listTTL[k] > 0 \/ (age[k] >= 0 /\ age[k] < TTL)
       \/ \E j \in JobIds : meta[j].ttl > 0
    /\ lists' = [k \in StoreKeys |-> IF Expiring(listTTL[k]) THEN << >> ELSE lists[k]]
    /\ listTTL' = [k \in StoreKeys |-> Countdown(listTTL[k])]
    /\ meta' = [j \in JobIds |-> IF Expiring(meta[j].ttl) THEN AbsentMeta
                                 ELSE [meta[j] EXCEPT !.ttl = Countdown(@)]]
    /\ pushed' = [k \in StoreKeys |-> IF Expiring(listTTL[k]) THEN << >> ELSE pushed[k]]
    /\ handed' = [k \in StoreKeys |-> IF Expiring(listTTL[k]) THEN << >> ELSE handed[k]]
    /\ epoch' = [k \in StoreKeys |-> IF Expiring(listTTL[k]) /\ epoch[k].single
                                     THEN [epoch[k] EXCEPT !.expired = TRUE]
                                     ELSE epoch[k]]
    /\ age' = [k \in StoreKeys |-> IF age[k] >= 0 /\ age[k] < TTL THEN age[k] + 1
                                   ELSE age[k]]
    /\ UNCHANGED << mon, adds, api, resp, reqs, faults >>
    /\ UNCHANGED workerVars

\* ---------------------------------------------------------------- stats
\* nothing but the request of client c is in progress
AtRest(c) ==
    /\ mon.pc = "idle"
    /\ \A d \in Clients \ {c} : api[d].pc = "idle"

\* handleStats: the queues of the response and their total
RECURSIVE TotalOf(_)
TotalOf(stats) ==
    IF stats = {} THEN 0
    ELSE LET e == CHOOSE x \in stats : TRUE
         IN  e[2] + TotalOf(stats \ {e})
StatsBody(stats) == [queues |-> stats, total |-> TotalOf(stats)]

\* handleStats with GetAllStats up to and including KEYS jobs:*
HandleStats(c, ok) ==
    /\ api[c].pc = "idle"
    /\ reqs < MaxRequests
    /\ reqs' = reqs + 1
    /\ Fault(ok)
    /\ IF ok
       THEN /\ api' = [api EXCEPT ![c] =
                          [IdleApi EXCEPT !.pc = "llen",
                                          !.keys = { k \in StoreKeys : lists[k] # << >> },
                                          !.fresh = AtRest(c)]]
            /\ UNCHANGED resp
       ELSE \* 500: getting keys
            /\ resp' = Response("stats", EmptyString, 500, TRUE)
            /\ UNCHANGED api
    /\ UNCHANGED << lists, listTTL, meta, mon, adds, pushed, handed, epoch, age >>

\* GetAllStats: LLEN of one of the listed keys; a failed LLEN is skipped
GetAllStats_LLen(c, k, ok) ==
    /\ api[c].pc = "llen"
    /\ k \in api[c].keys
    /\ Fault(ok)
    /\ api' = [api EXCEPT ![c].keys = @ \ {k},
                          ![c].stats = IF ok THEN @ \cup { << k, Len(lists[k]) >> } ELSE @,
                          ![c].failed = @ \/ ~ok]
    /\ UNCHANGED << lists, listTTL, meta, mon, adds, resp, reqs, pushed, handed, epoch,
                    age >>

\* handleStats: the 200 response once every listed key was visited
StatsResponse(c) ==
    /\ api[c].pc = "llen"
    /\ api[c].keys = {}
    /\ api' = [api EXCEPT ![c] = IdleApi]
    /\ resp' = [Response("stats", EmptyString, 200, TRUE) EXCEPT
                    !.failed = api[c].failed, !.body = StatsBody(api[c].stats)]
    /\ UNCHANGED << lists, listTTL, meta, mon, adds, reqs, faults, pushed, handed, epoch,
                    age >>

\* ---------------------------------------------------------------- worker
WorkerClient == CHOOSE c \in Clients : TRUE

\* Runner.Start: the select takes a tick of the poll ticker and
\* processNextJob sends the claim; the select may take the tick when the
\* context is done as well, and the request then fails before it is sent
Runner_getJob(ok) ==
    /\ worker.pc = "idle"
    /\ IF cancelled
       THEN /\ ok
            /\ worker.late < MaxTicks
            /\ worker' = [worker EXCEPT !.late = @ + 1]
            /\ UNCHANGED << lists, listTTL, meta, mon, adds, api, resp, reqs, faults,
                            pushed, handed, epoch, age >>
       ELSE /\ reqs + 2 <= MaxRequests
            /\ HandleGetJob(WorkerClient, WorkerQuery[WorkerRules], ok)
            /\ worker' = IF api'[WorkerClient].pc = "hset"
                         THEN [worker EXCEPT !.pc = "claiming"]
                         ELSE worker
    /\ UNCHANGED << agent, cancelled >>

\* getJob receives the response; with a job, runAgent starts the agent
Runner_runAgent(ok) ==
    /\ worker.pc = "claiming"
    /\ ClaimJob_HSet(WorkerClient, ok)
    /\ IF ok /\ ~cancelled
       THEN /\ worker' = [pc |-> "running", job |-> api[WorkerClient].job,
                          exit |-> "none", completeCalled |-> FALSE,
                          late |-> worker.late]
            /\ agent' = "running"
       ELSE /\ worker' = [worker EXCEPT !.pc = "idle"]
            /\ UNCHANGED agent
    /\ UNCHANGED cancelled

\* the agent process exits on its own
AgentExit(code) ==
    /\ agent = "running"
    /\ agent' = IF code = 0 THEN "exit0" ELSE "exit1"
    /\ UNCHANGED << lists, listTTL, meta, mon, adds, api, resp, reqs, faults, pushed,
                    handed, epoch, age, worker, cancelled >>

\* WorkerCmd.Run: a signal arrives and cancel() is called
Cancel ==
    /\ ~cancelled
    /\ cancelled' = TRUE
    /\ UNCHANGED << lists, listTTL, meta, mon, adds, api, resp, reqs, faults, pushed,
                    handed, epoch, age, worker, agent >>

\* exec.CommandContext: the context is done, the process is killed
KillAgent ==
    /\ cancelled
    /\ agent = "running"
    /\ agent' = "killed"
    /\ UNCHANGED << lists, listTTL, meta, mon, adds, api, resp, reqs, faults, pushed,
                    handed, epoch, age, worker, cancelled >>

\* cmd.Run returns; processNextJob returns on an error, else goes on
Runner_cmdRun ==
    /\ worker.pc = "running"
    /\ agent \in {"exit0", "exit1", "killed"}
    /\ worker' = IF agent = "exit0"
                 THEN [worker EXCEPT !.pc = "completing", !.exit = agent]
                 ELSE [worker EXCEPT !.pc = "idle", !.exit = agent]
    /\ agent' = "none"
    /\ UNCHANGED << lists, listTTL, meta, mon, adds, api, resp, reqs, faults, pushed,
                    handed, epoch, age, cancelled >>

\* Runner.completeJob: POST /jobs/<id>/complete; a done context fails the
\* request before it is sent
Runner_completeJob(ok) ==
    /\ worker.pc = "completing"
    /\ IF cancelled
       THEN /\ ok
            /\ UNCHANGED << lists, listTTL, meta, mon, adds, api, resp, reqs, faults,
                            pushed, handed, epoch, age >>
       ELSE HandleCompleteJob(WorkerClient, worker.job, ok)
    /\ worker' = [worker EXCEPT !.pc = "idle", !.completeCalled = TRUE]
    /\ UNCHANGED << agent, cancelled >>

\* Runner.Start: ctx.Done() is selected
Runner_Stop ==
    /\ worker.pc = "idle"
    /\ cancelled
    /\ worker' = [worker EXCEPT !.pc = "stopped"]
    /\ UNCHANGED << lists, listTTL, meta, mon, adds, api, resp, reqs, faults, pushed,
                    handed, epoch, age, agent, cancelled >>

\* ---------------------------------------------------------------- poller
\* a worker that is never cancelled, configured with one of the PollerRules,
\* next to a monitor whose jobs carry those rule lists or the list "a"; no
\* store command fails and the store's clock does not advance
PollerJobs == [ID : JobIds, AgentQueryRules : PollerRules \cup { << RuleA >> }]
PollerPages == PagesOf(PollerJobs, MaxPage)

PollerInit ==
    /\ IdleInit
    /\ \E r \in PollerRules : calc = [fn |-> "poller", agentQueryRules |-> r]

\* the query parameter handleGetJob reads from the poller's request
PollerQuery == WorkerQuery[calc.agentQueryRules]

\* Runner.Start: the select takes a tick and processNextJob sends the
\* claim; reqs counts the polls modulo MaxRequests + 1
Poller_getJob ==
    /\ calc.fn = "poller"
    /\ worker.pc = "idle"
    /\ ServeGetJob(WorkerClient, PollerQuery, TRUE)
    /\ reqs' = (reqs + 1) % (MaxRequests + 1)
    /\ worker' = IF api'[WorkerClient].pc = "hset"
                 THEN [worker EXCEPT !.pc = "claiming"]
                 ELSE worker
    /\ UNCHANGED << agent, cancelled, tally, poll, calc >>

\* Runner.completeJob: POST /jobs/<id>/complete
Poller_completeJob ==
    /\ calc.fn = "poller"
    /\ worker.pc = "completing"
    /\ ServeCompleteJob(WorkerClient, worker.job, TRUE)
    /\ worker' = [worker EXCEPT !.pc = "idle", !.completeCalled = TRUE]
    /\ UNCHANGED << reqs, agent, cancelled, tally, poll, calc >>

\* ---------------------------------------------------------------- tags
\* the byte "=" that separates the key of a tag from its value
Equals == 61
\* the key "queue"
QueueKey == << 113, 117, 101, 117, 101 >>

\* the place of the first "=" of a tag, 0 when it has none
EqualsAt(tag) ==
    IF \E n \in 1 .. Len(tag) : tag[n] = Equals
    THEN CHOOSE n \in 1 .. Len(tag) :
             /\ tag[n] = Equals
             /\ \A m \in 1 .. n - 1 : tag[m] # Equals
    ELSE 0

\* strings.SplitN(tag, "=", 2)
SplitN2(tag) ==
    IF EqualsAt(tag) = 0 THEN << tag >>
    ELSE << SubSeq(tag, 1, EqualsAt(tag) - 1), SubSeq(tag, EqualsAt(tag) + 1, Len(tag)) >>

\* the loop of normalizeTags over the tags, from the result and lastQueue
\* reached so far
RECURSIVE TagsLoop(_, _, _)
TagsLoop(tags, result, lastQueue) ==
    IF tags = << >> THEN [result |-> result, lastQueue |-> lastQueue]
    ELSE LET tag == Head(tags)
             parts == SplitN2(tag)
         IN  IF Len(parts) # 2 THEN TagsLoop(Tail(tags), result, lastQueue)
             ELSE IF parts[1] = QueueKey
                  THEN TagsLoop(Tail(tags), result, parts[2])
                  ELSE TagsLoop(Tail(tags), Append(result, tag), lastQueue)

\* Runner.normalizeTags
normalizeTags(tags) ==
    LET end == TagsLoop(tags, << >>, EmptyString)
    IN  JoinComma(IF end.lastQueue # EmptyString
                  THEN Append(end.result, QueueKey \o << Equals >> \o end.lastQueue)
                  ELSE end.result)

\* the tags a worker can be configured with: "queue=a", "queue=b", "queue=",
\* "a=b" and the bare tag "a"
TagStrings ==
    { QueueRule(RuleA), QueueRule(RuleB), QueueRule(EmptyString),
      RuleA \o << Equals >> \o RuleB, RuleA }

ListsUpTo(S, n) == UNION { [1 .. m -> S] : m \in 0 .. n }

\* WorkerCmd.Run refuses an empty list of capability rules
TagInputs ==
    [agentQueryRules : ListsUpTo(TagStrings, MaxTags) \ { << >> },
     tags : ListsUpTo(TagStrings, MaxTags)]

\* a worker configured with capability rules and extra tags, before runAgent
TagsInit ==
    /\ IdleInit
    /\ \E t \in TagInputs :
           calc = [fn |-> "normalizeTags", agentQueryRules |-> t.agentQueryRules,
                   tags |-> t.tags, done |-> FALSE, tagsValue |-> EmptyString]

\* Runner.runAgent: allTags is the rules followed by the tags, and tagsValue
\* what normalizeTags makes of it
Runner_tagsValue ==
    /\ calc.fn = "normalizeTags"
    /\ ~calc.done
    /\ calc' = [calc EXCEPT !.done = TRUE,
                            !.tagsValue = normalizeTags(calc.agentQueryRules \o calc.tags)]
    /\ UNCHANGED << lists, listTTL, meta, mon, adds, api, resp, reqs, faults, pushed,
                    handed, epoch, age, worker, agent, cancelled, tally, poll >>

\* ---------------------------------------------------------------- system
MonitorNext ==
    \/ \E p \in Pages : \E g \in SUBSET PageIds(p) : \E ok \in BOOLEAN :
           ReserveJobs(p, g, ok) /\ UNCHANGED restVars
    \/ ReserveSkip /\ UNCHANGED restVars
    \/ ReserveDone /\ UNCHANGED restVars
    \/ \E ok \in Outcomes : AddJob_RPush(ok) /\ UNCHANGED restVars
    \/ \E ok \in Outcomes : AddJob_Expire(ok) /\ UNCHANGED restVars
    \/ \E ok \in Outcomes : AddJob_HSet(ok) /\ UNCHANGED restVars
    \/ \E ok \in Outcomes : AddJob_ExpireMeta(ok)
                                 /\ Tally("insert", MonKey, ok) /\ UNCHANGED sideVars

ClaimNext ==
    \/ \E c \in Clients : \E q \in QueryParams : \E ok \in Outcomes :
           HandleGetJob(c, q, ok) /\ UNCHANGED << workerVars, restVars >>
    \/ \E c \in Clients : \E ok \in Outcomes :
           /\ ClaimJob_HSet(c, ok)
           /\ Tally("claim", ClaimKey(api[c].query), ok)
           /\ UNCHANGED << workerVars, sideVars >>

CompleteNext ==
    \E c \in Clients : \E j \in JobIds : \E ok \in Outcomes :
        HandleCompleteJob(c, j, ok) /\ UNCHANGED << workerVars, restVars >>

StatsNext ==
    \/ \E c \in Clients : \E ok \in Outcomes : HandleStats(c, ok) /\ UNCHANGED << workerVars, restVars >>
    \/ \E c \in Clients : \E k \in StoreKeys : \E ok \in Outcomes :
           GetAllStats_LLen(c, k, ok) /\ UNCHANGED << workerVars, restVars >>
    \/ \E c \in Clients : StatsResponse(c) /\ UNCHANGED << workerVars, restVars >>

WorkerNext ==
    \/ \E ok \in Outcomes : Runner_getJob(ok) /\ UNCHANGED restVars
    \/ \E ok \in Outcomes : Runner_runAgent(ok)
                                 /\ Tally("claim", ClaimKey(api[WorkerClient].query), ok)
                                 /\ UNCHANGED sideVars
    \/ \E code \in {0, 1} : AgentExit(code) /\ UNCHANGED restVars
    \/ Cancel /\ UNCHANGED restVars
    \/ KillAgent /\ UNCHANGED restVars
    \/ Runner_cmdRun /\ UNCHANGED restVars
    \/ \E ok \in Outcomes : Runner_completeJob(ok) /\ UNCHANGED restVars
    \/ Runner_Stop /\ UNCHANGED restVars

\* the job index under the monitor's inserts and the API's claims and
\* completions
Next == MonitorNext \/ ClaimNext \/ CompleteNext
Spec == Init /\ [][Next]_vars

\* inserts and claims with the store's clock
TimedNext == MonitorNext \/ ClaimNext \/ (Tick /\ UNCHANGED restVars)
TimedSpec == Init /\ [][TimedNext]_vars

PollNext ==
    \/ Monitor_Tick
    \/ Monitor_Cancel
    \/ Monitor_Stop
    \/ \E ok \in BOOLEAN : \E r \in ListResponses : PollQueue_List(ok, r)
    \/ \E g \in SUBSET PageIds(poll.page) : \E ok \in BOOLEAN : PollQueue_reserveJobs(g, ok)
    \/ Poll_ReserveSkip
    \/ \E ok \in Outcomes : Poll_AddJob_RPush(ok)
    \/ \E ok \in Outcomes : Poll_AddJob_Expire(ok)
    \/ \E ok \in Outcomes : Poll_AddJob_HSet(ok)
    \/ \E ok \in Outcomes : Poll_AddJob_ExpireMeta(ok)
    \/ Poll_ReserveDone

\* the monitor from Start to its shutdown: ticks, queues, pages, reservations
\* and inserts
PollSpec == Init /\ [][PollNext]_vars

\* inserts, claims and stats requests
StatsSpecNext == MonitorNext \/ ClaimNext \/ StatsNext
StatsSpec == Init /\ [][StatsSpecNext]_vars

\* the monitor's inserts and one worker
WorkerSpecNext == MonitorNext \/ WorkerNext
WorkerSpec == Init /\ [][WorkerSpecNext]_vars

\* the monitor's inserts in the poller's system
PollerMonitorNext ==
    \/ \E p \in PollerPages : \E g \in SUBSET PageIds(p) :
           ReserveJobs(p, g, TRUE) /\ UNCHANGED restVars
    \/ ReserveSkip /\ UNCHANGED restVars
    \/ ReserveDone /\ UNCHANGED restVars
    \/ AddJob_RPush(TRUE) /\ UNCHANGED restVars
    \/ AddJob_Expire(TRUE) /\ UNCHANGED restVars
    \/ AddJob_HSet(TRUE) /\ UNCHANGED restVars
    \/ AddJob_ExpireMeta(TRUE) /\ Tally("insert", MonKey, TRUE) /\ UNCHANGED sideVars

\* the steps of the poller: Start, processNextJob, runAgent and the agent
PollerNext ==
    \/ Poller_getJob
    \/ Runner_runAgent(TRUE) /\ Tally("claim", ClaimKey(api[WorkerClient].query), TRUE)
                             /\ UNCHANGED sideVars
    \/ \E code \in {0, 1} : AgentExit(code) /\ UNCHANGED restVars
    \/ Runner_cmdRun /\ UNCHANGED restVars
    \/ Poller_completeJob

\* the monitor's inserts and a worker that keeps polling: the poll ticker
\* keeps ticking, requests are answered and the agent exits
PollerSysNext == PollerMonitorNext \/ PollerNext
PollerSpec == PollerInit /\ [][PollerSysNext]_vars /\ WF_vars(PollerNext)

\* ---------------------------------------------------------------- keys
\* the rule strings of a job or a claim: "", "a" and "b"
RuleStrings == { EmptyString, RuleA, RuleB }
RuleInputs == ListsUpTo(RuleStrings, MaxRules)

\* two rule lists, x of a job and y of a claim, before they are normalized
RulesInit ==
    /\ IdleInit
    /\ \E x \in RuleInputs : \E y \in RuleInputs :
           calc = [fn |-> "rules", pc |-> "input", x |-> x, y |-> y,
                   keyX |-> EmptyString, keyY |-> EmptyString, parsedX |-> << >>]

\* AddJob and ClaimJob: the key of a rule list is NormalizeQueryRules of it
NormalizeRules ==
    /\ calc.fn = "rules"
    /\ calc.pc = "input"
    /\ calc' = [calc EXCEPT !.pc = "normalized",
                            !.keyX = NormalizeQueryRules(calc.x),
                            !.keyY = NormalizeQueryRules(calc.y)]
    /\ UNCHANGED << lists, listTTL, meta, mon, adds, api, resp, reqs, faults, pushed,
                    handed, epoch, age, worker, agent, cancelled, tally, poll >>

\* ParseQueryRules of the key of x
ParseRules ==
    /\ calc.fn = "rules"
    /\ calc.pc = "normalized"
    /\ calc' = [calc EXCEPT !.pc = "parsed", !.parsedX = ParseQueryRules(calc.keyX)]
    /\ UNCHANGED << lists, listTTL, meta, mon, adds, api, resp, reqs, faults, pushed,
                    handed, epoch, age, worker, agent, cancelled, tally, poll >>

\* the keys of two rule lists and the way back, for every pair of lists
RulesNext == NormalizeRules \/ ParseRules
RulesSpec == RulesInit /\ [][RulesNext]_vars

\* a worker's tag merge, for every configuration of rules and tags
TagsNext == Runner_tagsValue
TagsSpec == TagsInit /\ [][TagsNext]_vars

\* ---------------------------------------------------------------- claims
JobsOf(list) == [n \in 1 .. Len(list) |-> Unmarshal(list[n]).UUID]
Occurrences(j, seq) == Cardinality({ n \in 1 .. Len(seq) : seq[n] = j })
TimesIn(j, hist) ==
    LET RECURSIVE Sum(_)
        Sum(K) == IF K = {} THEN 0
                  ELSE LET k == CHOOSE x \in K : TRUE
                       IN  Occurrences(j, hist[k]) + Sum(K \ {k})
    IN  Sum(StoreKeys)

\* the claims on key k that popped a job of the current epoch and have not
\* returned yet
InFlight(k) ==
    Cardinality({ c \in Clients : /\ api[c].pc = "hset"
                                  /\ api[c].fresh
                                  /\ ClaimKey(api[c].query) = k })

\* C1: after an insert left the queue of key k with exactly one job, and as
\* long as no store command of a claim failed and the queue did not expire,
\* at most one of the claims made on k since then holds or has returned the
\* job, and once a claim has returned "no job" exactly one other claim holds
\* or has returned it: N interleaved claims give one job and N-1 "no job".
C1_AtMostOnceClaim ==
    \A k \in StoreKeys :
        (epoch[k].single /\ ~epoch[k].err /\ ~epoch[k].expired) =>
            /\ epoch[k].job + InFlight(k) <= 1
            /\ epoch[k].none => epoch[k].job + InFlight(k) = 1
            /\ epoch[k].job + InFlight(k) = 0 => Len(lists[k]) = 1

\* C1 witness: on one key, one claim returned the only job and another claim
\* returned "no job"
C1_Witness ==
    \E k \in StoreKeys :
        /\ epoch[k].single /\ ~epoch[k].err /\ ~epoch[k].expired
        /\ epoch[k].job = 1
        /\ epoch[k].none

\* C2: the status of an existing metadata record never moves back in the
\* order reserved < claimed < complete.
C2_StatusMonotonic ==
    [][\A j \in JobIds :
          (meta[j].status # "absent" /\ meta'[j].status # "absent") =>
              StatusRank(meta'[j].status) >= StatusRank(meta[j].status)]_vars

\* C3: a job id is appended to a queue at most once and handed out by a
\* claim at most once.
C3_NeverReinserted ==
    \A j \in JobIds : TimesIn(j, pushed) <= 1 /\ TimesIn(j, handed) <= 1

\* C4: a cycle of the worker whose agent process exited, with whatever exit
\* code, has called completeJob by the time it ends.
C4_CompleteAfterExit ==
    (worker.pc \in {"idle", "stopped"} /\ worker.exit \in {"exit0", "exit1"})
        => worker.completeCalled

\* C5: CompleteJob on a job id without a metadata record answers 200 and
\* leaves every record of the store and every TTL as it was.
C5_CompleteMissingIsNoOp ==
    [][\A c \in Clients : \A j \in JobIds :
          (meta[j] = AbsentMeta /\ HandleCompleteJob(c, j, TRUE)) =>
              (resp'.status = 200 /\ UNCHANGED << lists, listTTL, meta >>)]_vars

\* C6: as long as the queue of a key has not expired, the jobs claims took
\* from it, followed by the jobs still queued, are the jobs inserted under
\* the key in insertion order: claims return jobs in insertion order.
C6_FifoPerKey ==
    \A k \in StoreKeys : handed[k] \o JobsOf(lists[k]) = pushed[k]

\* C6 witness: two different jobs were inserted under one key and two claims
\* took them, in the order of insertion
C6_Witness ==
    \E k \in StoreKeys :
        /\ Len(pushed[k]) = 2
        /\ pushed[k][1] # pushed[k][2]
        /\ handed[k] = pushed[k]
        /\ resp.op = "claim" /\ resp.status = 200 /\ ClaimKey(resp.query) = k
        /\ \A c \in Clients : api[c].pc = "idle"

\* C7: once the context is cancelled, a running agent process is not killed:
\* it keeps running or exits on its own.
C7_NotKilledOnCancel ==
    [][(cancelled /\ agent = "running") => agent' \in {"running", "exit0", "exit1"}]_vars

HasNonEmptyRule(q) ==
    \E n \in 1 .. Len(QueryRulesOf(q)) : QueryRulesOf(q)[n] # EmptyString

\* C8: a GET /jobs request whose query holds no non-empty rule is answered
\* 400 and no store command is issued for it.
C8_ClaimValidation ==
    /\ (resp.op = "claim" /\ ~HasNonEmptyRule(resp.query)) =>
           (resp.status = 400 /\ ~resp.store)
    /\ \A c \in Clients : api[c].pc = "hset" => HasNonEmptyRule(api[c].query)

\* C9: when TTL ticks have passed since the last successful insert under a
\* key and nothing was appended to its queue since, the queue does not exist,
\* so that every claim on the key finds no job.
C9_TTLExpiry ==
    \A k \in StoreKeys : age[k] = TTL => lists[k] = << >>

\* C9 witness: the only job of a key was never handed out, the queue expired
\* TTL ticks after the insert, and a claim made after the insert found no job
C9_Witness ==
    \E k \in StoreKeys :
        /\ age[k] = TTL
        /\ epoch[k].single /\ epoch[k].expired /\ ~epoch[k].err
        /\ epoch[k].job = 0 /\ InFlight(k) = 0
        /\ epoch[k].none
        /\ resp.op = "claim" /\ resp.status = 204 /\ ClaimKey(resp.query) = k

\* C10: an API operation during which a store command failed answers 500.
C10_FailuresSurface ==
    resp.failed => resp.status = 500

\* the key of a tag: what stands before its first "=", the whole tag when
\* it has none
TagKey(tag) == IF EqualsAt(tag) = 0 THEN tag ELSE SubSeq(tag, 1, EqualsAt(tag) - 1)
TagValue(tag) == SubSeq(tag, EqualsAt(tag) + 1, Len(tag))
OtherTags(tags) == SelectSeq(tags, LAMBDA tag : TagKey(tag) # QueueKey)
QueueTags(tags) == SelectSeq(tags, LAMBDA tag : TagKey(tag) = QueueKey)
\* what the tag-merge rule emits for a list of tags
MergedTags(tags) ==
    OtherTags(tags) \o
        (IF QueueTags(tags) = << >> THEN << >>
         ELSE << QueueKey \o << Equals >> \o
                     TagValue(QueueTags(tags)[Len(QueueTags(tags))]) >>)

\* C11: the tag string of runAgent is made of every entry of rules-then-tags
\* whose key is not "queue", verbatim, in input order and with duplicates,
\* followed, when some entry has the key "queue", by one "queue" entry with
\* the value of the last such entry.
C11_TagMerge ==
    (calc.fn = "normalizeTags" /\ calc.done) =>
        calc.tagsValue = JoinComma(MergedTags(calc.agentQueryRules \o calc.tags))

\* the elements of a list of strings, and equality of lists as multisets
SetOf(xs) == { xs[n] : n \in 1 .. Len(xs) }
IsPermutation(xs, ys) ==
    /\ Len(xs) = Len(ys)
    /\ \A str \in SetOf(xs) \cup SetOf(ys) : Occurrences(str, xs) = Occurrences(str, ys)

\* C12: a rule list and any permutation of it have the same key.
C12_OrderIndependent ==
    (calc.fn = "rules" /\ calc.pc # "input" /\ IsPermutation(calc.x, calc.y)) =>
        calc.keyX = calc.keyY

\* C12 witness: three rules in two different orders were normalized to one
\* key
C12_Witness ==
    /\ calc.fn = "rules" /\ calc.pc = "normalized"
    /\ Len(calc.x) = 3
    /\ Cardinality(SetOf(calc.x)) = 3
    /\ calc.x # calc.y
    /\ IsPermutation(calc.x, calc.y)
    /\ calc.keyX = calc.keyY

\* C13: two rule lists that contain the same set of rule strings have the
\* same key, and the empty list has the empty key.
C13_SetEqualSameKey ==
    (calc.fn = "rules" /\ calc.pc # "input") =>
        /\ SetOf(calc.x) = SetOf(calc.y) => calc.keyX = calc.keyY
        /\ calc.x = << >> => calc.keyX = EmptyString

\* C14: for a non-empty rule list x, ParseQueryRules of the key of x is x as
\* a multiset.
C14_RoundTrip ==
    (calc.fn = "rules" /\ calc.pc = "parsed" /\ calc.x # << >>) =>
        IsPermutation(calc.parsedX, calc.x)

\* the jobs a key holds by the count of its successful inserts and claims
Balance(k) == tally[k].inserts - tally[k].claims
\* the length a stats body reports for key k, 0 when it does not report k
Reported(body, k) ==
    IF \E e \in body.queues : e[1] = k
    THEN (CHOOSE e \in body.queues : e[1] = k)[2]
    ELSE 0
RECURSIVE SumReported(_, _)
SumReported(body, keys) ==
    IF keys = {} THEN 0
    ELSE LET k == CHOOSE x \in keys : TRUE
         IN  Reported(body, k) + SumReported(body, keys \ {k})

\* C15: a stats request that ran from start to response with nothing else
\* in progress reports, for each key, the number of successful inserts
\* minus the number of successful claims on the key (keys at zero are not
\* listed), and a total that is the sum of the reported lengths.
C15_StatsAtRest ==
    [][\A c \in Clients :
          (StatsResponse(c) /\ api[c].fresh /\ AtRest(c)) =>
              /\ \A e \in resp'.body.queues : e[2] = Balance(e[1])
              /\ \A k \in StoreKeys : Reported(resp'.body, k) = Balance(k)
              /\ resp'.body.total = SumReported(resp'.body, StoreKeys)]_vars

\* C16: a claim that passes validation and whose key has no queue, made
\* while other keys hold jobs and answered by the store, is answered 204,
\* not an error, and leaves every queue, every TTL and every metadata record
\* as it was.
C16_AbsentKeyNoJob ==
    [][\A c \in Clients : \A q \in QueryParams \ {EmptyString} :
          ( /\ HandleGetJob(c, q, TRUE)
            /\ lists[ClaimKey(q)] = << >>
            /\ \E k \in StoreKeys : lists[k] # << >> ) =>
              /\ resp'.op = "claim" /\ resp'.query = q
              /\ resp'.status = 204
              /\ ~resp'.failed
              /\ UNCHANGED << lists, listTTL, meta >>]_vars

\* C16 witness: a claim on a key that never had a queue was answered 204
\* while another key holds a reserved job
C16_Witness ==
    /\ resp.op = "claim" /\ resp.status = 204
    /\ pushed[ClaimKey(resp.query)] = << >>
    /\ \E k \in StoreKeys \ {ClaimKey(resp.query)} :
           /\ lists[k] # << >>
           /\ meta[JobsOf(lists[k])[1]].status = "reserved"
    /\ \A c \in Clients : api[c].pc = "idle"
    /\ mon.pc = "idle"

\* C17: once the cancellation is raised, the monitor's loop and the
\* worker's loop each start at most one further tick (after which they send
\* no request and end).
C17_OneTickAfterCancel ==
    /\ poll.late <= 1
    /\ worker.late <= 1

\* a step of pollQueue that sends a listing or a reservation request: a step
\* of the monitor from "list" or "reserve" that is not the cancellation
SendsRequest ==
    /\ poll.pc \in {"list", "reserve"}
    /\ poll'.done = poll.done
    /\ poll' # poll

\* C18: within a tick, once a listing or a reservation request for a queue
\* has failed, no further listing or reservation request is sent for that
\* queue; and the tick still sends a request for every configured queue, and
\* the monitor only stops on cancellation.
C18_ErrorAbortsQueue ==
    [][ /\ SendsRequest => poll.seen[Polled] # "error"
        /\ (poll'.pc = "wait" /\ poll'.ticks > 0) =>
               \A n \in 1 .. Len(Queues) : poll'.seen[n] # "no"
        /\ poll'.pc = "stopped" => poll'.done ]_vars

\* the jobs of the page the loop of reserveJobs has got to
Reached ==
    LET rest == IF mon.pc = "loop" THEN mon.todo ELSE Tail(mon.todo)
    IN  SubSeq(poll.page, 1, Len(poll.page) - Len(rest))
\* the ids of the jobs of a list that are in the granted set, in list order
GrantedIds(jobs, granted) ==
    LET kept == SelectSeq(jobs, LAMBDA job : job.ID \in granted)
    IN  [n \in 1 .. Len(kept) |-> kept[n].ID]
RECURSIVE IsSubsequence(_, _)
IsSubsequence(xs, ys) ==
    IF xs = << >> THEN TRUE
    ELSE IF ys = << >> THEN FALSE
    ELSE IF Head(xs) = Head(ys) THEN IsSubsequence(Tail(xs), Tail(ys))
    ELSE IsSubsequence(xs, Tail(ys))

\* C19: while reserveJobs goes through a page, the jobs it has called AddJob
\* with are the jobs of the page reached so far whose ids were granted, in
\* page order and each once; the jobs appended to a queue are those of them
\* whose RPUSH the store accepted (all of them when no store command fails);
\* a listed job that was not granted is not passed to AddJob and not
\* appended.
C19_GrantedSubsetOnly ==
    poll.pc = "insert" =>
        /\ poll.called = GrantedIds(Reached, mon.granted)
        /\ \A id \in JobIds : Occurrences(id, poll.called) <= 1
        /\ IsSubsequence(poll.appended, poll.called)
        /\ faults = 0 => poll.appended = poll.called
        /\ \A id \in SetOf(poll.appended) : TimesIn(id, pushed) >= 1
        /\ \A id \in PageIds(poll.page) \ mon.granted :
               Occurrences(id, poll.called) = 0 /\ Occurrences(id, poll.appended) = 0

\* C19 witness: reserveJobs is through a page of two jobs of which one was
\* granted; that one is in a queue, the other was never appended
C19_Witness ==
    /\ poll.pc = "insert" /\ mon.pc = "loop" /\ mon.todo = << >>
    /\ Len(poll.page) = 2
    /\ Cardinality(mon.granted) = 1
    /\ Len(poll.called) = 1 /\ poll.appended = poll.called
    /\ \E k \in StoreKeys : JobsOf(lists[k]) = poll.called
    /\ \A id \in PageIds(poll.page) \ mon.granted : TimesIn(id, pushed) = 0

\* C20: the step that receives a listing response reporting the queue
\* paused ends the polling of that queue for the tick: no reservation is
\* started, the monitor goes to the next queue (or the tick ends), and the
\* queues and metadata, with the inserts of earlier pages, stay as they are;
\* and no request is sent for a queue that reported paused in this tick.
C20_PausedAbortsQueue ==
    [][ /\ \A r \in ListResponses :
               (poll.pc = "list" /\ r.Paused /\ PollQueue_List(TRUE, r)) =>
                   /\ poll'.seen[Polled] = "paused"
                   /\ poll'.queues = Tail(poll.queues)
                   /\ poll'.pc \in {"list", "wait"}
                   /\ mon.pc = "idle" /\ mon' = mon
                   /\ UNCHANGED << lists, listTTL, meta, pushed, tally >>
        /\ SendsRequest => poll.seen[Polled] # "paused" ]_vars

\* C20 witness: in the first tick the first queue reported paused on its
\* second page, after a job of its first page was inserted, and the monitor
\* is at the second queue
C20_Witness ==
    /\ poll.ticks = 1
    /\ poll.seen[1] = "paused"
    /\ poll.pc = "list" /\ Len(poll.queues) = Len(Queues) - 1 /\ poll.seen[2] = "no"
    /\ \E k \in StoreKeys : lists[k] # << >> /\ tally[k].inserts = 1

\* a job in a queue with the metadata record AddJob writes for it
FullyInserted(id) ==
    /\ TimesIn(id, pushed) >= 1
    /\ \E k \in StoreKeys :
           /\ id \in SetOf(JobsOf(lists[k]))
           /\ listTTL[k] = TTL
           /\ meta[id].status = "reserved" /\ meta[id].query_rules = k
    /\ meta[id].ttl = TTL

\* C21: when reserveJobs returns from a page, AddJob was called for every
\* granted job of the page, whether or not the AddJob of another job failed;
\* of the granted jobs, at most as many as store commands failed are not
\* fully inserted; and reserveJobs returns success: pollQueue records no
\* error for the queue and goes on to the next page or queue.
C21_InsertFailuresIsolated ==
    [][Poll_ReserveDone =>
          /\ poll.called = GrantedIds(poll.page, mon.granted)
          /\ Cardinality({ id \in SetOf(poll.called) : ~FullyInserted(id) }) <= faults
          /\ poll'.seen = poll.seen
          /\ poll'.pc \in {"list", "wait"}]_vars

\* C21 witness: reserveJobs is through a page of two granted jobs; the
\* RPUSH of the first failed, and the second is in a queue with its metadata
C21_Witness ==
    /\ poll.pc = "insert" /\ mon.pc = "loop" /\ mon.todo = << >>
    /\ Len(poll.page) = 2 /\ Cardinality(mon.granted) = 2
    /\ faults = 1
    /\ Len(poll.called) = 2
    /\ poll.appended = << poll.called[2] >>
    /\ ~FullyInserted(poll.called[1])
    /\ FullyInserted(poll.called[2])

\* the claims on key k that have removed a job and not answered yet
Popping(k) ==
    Cardinality({ c \in Clients : api[c].pc = "hset" /\ ClaimKey(api[c].query) = k })

\* C22: every job removed from the queue of a key is held by a claim that
\* has not answered yet or was returned to the caller by a claim that
\* answered 200: a claim that answers with an error has removed no job.
C22_NoJobLostByFailedClaim ==
    \A k \in StoreKeys : Len(handed[k]) = tally[k].claims + Popping(k)

\* no AddJob, ClaimJob or CompleteJob call is part-way through
BetweenCalls ==
    /\ mon.pc \in {"idle", "loop"}
    /\ \A c \in Clients : api[c].pc = "idle"

\* C23: between calls of AddJob, ClaimJob and CompleteJob, every queue and
\* every metadata record that exists carries an expiry.
C23_EveryRecordExpires ==
    BetweenCalls =>
        /\ \A k \in StoreKeys : lists[k] # << >> => listTTL[k] # NoExpiry
        /\ \A j \in JobIds : meta[j].status # "absent" => meta[j].ttl # NoExpiry

\* the job is in some queue
Queued(j) == \E k \in StoreKeys : j \in SetOf(JobsOf(lists[k]))

\* C24: between calls, a job whose metadata status is "complete" is in no
\* queue, and the status only becomes "complete" from "claimed".
C24_CompleteNotQueued ==
    /\ [](BetweenCalls => \A j \in JobIds : meta[j].status = "complete" => ~Queued(j))
    /\ [][\A j \in JobIds :
             (meta'[j].status = "complete" /\ meta[j].status # "complete") =>
                 meta[j].status = "claimed"]_vars

\* C25: between calls, every job in the queue of a key has a metadata
\* record, and the record names that key.
C25_QueuedHasMetadata ==
    BetweenCalls =>
        \A k \in StoreKeys : \A j \in SetOf(JobsOf(lists[k])) :
            /\ meta[j].status # "absent"
            /\ meta[j].query_rules = k

\* the key of the poller's rule list
PollerKeys == [r \in PollerRules |-> getJobQuery(WorkerQueue, r)]
PollerKey == PollerKeys[calc.agentQueryRules]

\* C26: with a worker that keeps polling with a rule list of key K, every
\* job appended to the queue of K is eventually returned by a claim: once n
\* jobs have been appended under K, n claims on K eventually have answered
\* with a job.
C26_EventuallyClaimed ==
    \A n \in 1 .. MaxAdds :
        (Len(pushed[PollerKey]) >= n) ~> (tally[PollerKey].claims >= n)

====
